---- MODULE Spec2Model ----
(***************************************************************************)
(* Model of the `frame` bridge (src/src/lib.rs, src/src/ipc_req.rs):       *)
(*   - create_webframe: wires the host->background channel into the        *)
(*     process-wide MESSAGE_CHANNEL, spawns the two tokio tasks and runs   *)
(*     the tao event loop;                                                 *)
(*   - handle_ipc_req: the IPC handler that calls the Python callback and  *)
(*     posts RuntimeMessage::Eval through the event-loop proxy;            *)
(*   - emit_str / emit_async: parse a JSON payload into a Message and send *)
(*     it through the sender stored in MESSAGE_CHANNEL;                    *)
(*   - SerdeRequest::from: the header mapping of a serialised request;     *)
(*   - the same calls at the granularity of the two locks they take, the   *)
(*     interpreter lock (GIL) and the MESSAGE_CHANNEL mutex, together with *)
(*     ReceiverHandle::recv_blocking of src/src/py_sender.rs.              *)
(***************************************************************************)
EXTENDS Integers, Sequences, FiniteSets, TLC

(***************************************************************************)
(* Bounds of the exploration.                                              *)
(***************************************************************************)
\* number of create_webframe calls that get past surface creation
MaxFrames == 2
\* number of IPC requests the renderer delivers (per process)
MaxDispatch == 2
\* number of window events the platform delivers (per process)
MaxWindowEvents == 1
\* number of emit_str / emit_async calls (per process)
MaxEmits == 2
\* number of create_webframe calls that fail while building the surface
MaxFailures == 1

\* number of header lines of a request
MaxHeaders == 3
\* emit_async futures spawned and not yet run, window events waiting for the
\* loop, and messages waiting in the crossbeam channel
MaxPending == 1

\* threads of the scripting host that call emit_str / emit_async
Producers == {1, 2}

(***************************************************************************)
(* Values.                                                                 *)
(***************************************************************************)
\* Option<T>: None is the empty sequence, Some(x) the one-element sequence
None == << >>
Some(x) == << x >>

\* scripts a Python callback can return (the empty string is a string too)
Scripts == {"", "document.title='x'"}

\* what handler.call1 can produce: Err(PyErr), or Ok(obj) with obj None,
\* a str, or an object that is neither (e.g. an int)
CallbackResults ==
    {[kind |-> "raise", s |-> ""], [kind |-> "None", s |-> ""],
     [kind |-> "other", s |-> ""]}
    \cup {[kind |-> "str", s |-> x] : x \in Scripts}

\* events of the tao loop; script is only meaningful for UserEvent
Eval(script) == [type |-> "UserEvent", script |-> script]
CloseRequested == [type |-> "CloseRequested", script |-> ""]
OtherWindowEvent == [type |-> "OtherWindowEvent", script |-> ""]
WindowEvents == {CloseRequested, OtherWindowEvent}

(***************************************************************************)
(* JSON payloads (the text handed to emit_str / emit_async), as parsed     *)
(* documents: garbage (text that is not JSON) or an object given as the    *)
(* sequence of its members in textual order.                               *)
(***************************************************************************)
Str(s) == [t |-> "str", v |-> s]
Null == [t |-> "null", v |-> ""]
Num == [t |-> "num", v |-> ""]
Member(k, val) == [k |-> k, val |-> val]
Obj(members) == [kind |-> "object", items |-> members]
Garbage == [kind |-> "garbage", items |-> << >>]

\* struct Message { message: String, #[serde(default)] timestamp: Option<String> }
Message(m, ts) == [message |-> m, timestamp |-> ts]
Messages == {Message(m, ts) : m \in {"hi"}, ts \in {None, Some("t1")}}

\* #[derive(Serialize)] on Message: both fields are written, None as null
Serialize(m) ==
    Obj(<< Member("message", Str(m.message)),
           Member("timestamp", IF m.timestamp = None THEN Null
                               ELSE Str(m.timestamp[1])) >>)

Ok(m) == [ok |-> TRUE, msg |-> m]
Err == [ok |-> FALSE, msg |-> Message("", None)]

\* Deserialize for String
de_String(val) == IF val.t = "str" THEN Ok(val.v) ELSE Err
\* variant of de_Option_String that skips the value
de_Option_String_skip(val) == Ok(None)

\* Deserialize for Option<String>: null is None, anything else must be a string
de_Option_String(val) ==
    IF val.t = "null" THEN Ok(None)
    ELSE IF val.t = "str" THEN Ok(Some(val.v)) ELSE Err

\* derived Visitor::visit_map: members are read in order; an unknown key is
\* ignored, a repeated known key is an error; at the end a missing `message`
\* is an error and a missing `timestamp` takes its default (None)
RECURSIVE visit_map(_, _, _, _)
visit_map(items, i, message, timestamp) ==
    IF i > Len(items)
    THEN IF message = None THEN Err
         ELSE Ok(Message(message[1],
                         IF timestamp = None THEN None ELSE timestamp[1]))
    ELSE LET k == items[i].k
             val == items[i].val
         IN  IF k = "message"
             THEN IF message # None \/ ~de_String(val).ok THEN Err
                  ELSE visit_map(items, i + 1, Some(val.v), timestamp)
             ELSE IF k = "timestamp"
             THEN IF timestamp # None \/ ~de_Option_String(val).ok THEN Err
                  ELSE visit_map(items, i + 1, message,
                                 Some(de_Option_String(val).msg))
             ELSE visit_map(items, i + 1, message, timestamp)

\* serde_json::from_str::<Message>(json)
from_str(json) ==
    IF json.kind = "object" THEN visit_map(json.items, 1, None, None)
    ELSE Err

\* payloads the host passes to emit_str / emit_async
Payloads ==
    {Serialize(m) : m \in Messages}
    \cup {Garbage,
          Obj(<< Member("message", Str("yo")), Member("extra", Num) >>),
          Obj(<< Member("timestamp", Str("t1")) >>)}

(***************************************************************************)
(* State.                                                                  *)
(***************************************************************************)
VARIABLES
    nframes,          \* create_webframe calls that built their surface so far
    nfailed,          \* create_webframe calls that returned an error so far
    nwindow,          \* window events delivered by the platform so far
    exited,           \* the process has exited (event_loop.run never returns)
    flow,             \* per frame: the ControlFlow of its event loop
    queue,            \* per frame: events posted to the loop, not yet handled
    sent,             \* per frame: scripts accepted by proxy.send_event, in order
    evaluated,        \* per frame: scripts passed to evaluate_script, in order
    lastResult,       \* what the latest evaluate_script call returned
    ndispatch,        \* IPC handler calls so far
    lastDispatch,     \* the latest IPC handler call: frame and callback outcome
    MESSAGE_CHANNEL,  \* the static Mutex<Option<UnboundedSender<Message>>>
    py_to_rust,       \* per channel: messages sent and not yet received
    rust_to_py,       \* per channel: replies sent and not yet received
    consumer,         \* per channel: state of the task that owns py_to_rust_rx
    reader,           \* per channel: state of the task that owns rust_to_py_rx
    consumed,         \* per channel: messages the consumer task received, in order
    printed,          \* per channel: number of replies the reader task received
    nemits,           \* emit_str / emit_async calls so far
    nsent,            \* sender.send calls that returned Ok so far
    lastEmit,         \* the latest emit_str / emit_async call and its result
    lastFuture,       \* the latest emit_async future that ran, and its result
    tasks,            \* futures spawned by emit_async that have not run yet
    request,          \* header lines of the http::Request handed to From
    serde,            \* the headers of the SerdeRequest built from it
    pc,               \* per thread: where it is in the code
    gil,              \* the thread that holds the interpreter lock, or "free"
    mutex,            \* the thread that holds the MESSAGE_CHANNEL mutex, or "free"
    futures,          \* emit_async futures spawned and not yet started
    pending,          \* window events waiting for the event loop
    crossbeam         \* messages waiting in the channel of a ReceiverHandle

vars == << nframes, nfailed, nwindow, exited, flow, queue, sent, evaluated,
           lastResult,
           ndispatch, lastDispatch, MESSAGE_CHANNEL, py_to_rust, rust_to_py,
           consumer, reader, consumed, printed, nemits, nsent, lastEmit,
           lastFuture, tasks, request, serde, pc, gil, mutex, futures,
           pending, crossbeam >>

loopVars == << flow, queue, sent, evaluated, lastResult, ndispatch,
              lastDispatch, nwindow >>
emitVars == << nemits, nsent, lastEmit, lastFuture, tasks >>
fabricVars == << MESSAGE_CHANNEL, py_to_rust, rust_to_py, consumer, reader,
                 consumed, printed, emitVars >>
requestVars == << request, serde >>
lockVars == << pc, gil, mutex, futures, pending, crossbeam >>
auxVars == << requestVars, lockVars >>

\* the threads of the process: the thread that calls create_webframe and
\* runs the event loop, two more threads of the scripting host, and a worker
\* of the tokio runtime
Hosts == {"h1", "h2"}
Threads == {"render", "worker"} \cup Hosts

\* one frame = one create_webframe call that reached the event loop; its
\* channel pair carries the same index
Frames == 1 .. MaxFrames

\* the process before the first call
Start ==
    /\ nframes = 0
    /\ nfailed = 0
    /\ nwindow = 0
    /\ exited = FALSE
    /\ flow = [f \in Frames |-> "Poll"]
    /\ queue = [f \in Frames |-> << >>]
    /\ sent = [f \in Frames |-> << >>]
    /\ evaluated = [f \in Frames |-> << >>]
    /\ lastResult = None
    /\ ndispatch = 0
    /\ lastDispatch = None
    /\ MESSAGE_CHANNEL = None
    /\ py_to_rust = [c \in Frames |-> << >>]
    /\ rust_to_py = [c \in Frames |-> << >>]
    /\ consumer = [c \in Frames |-> "none"]
    /\ reader = [c \in Frames |-> "none"]
    /\ consumed = [c \in Frames |-> << >>]
    /\ printed = [c \in Frames |-> 0]
    /\ nemits = 0
    /\ nsent = 0
    /\ lastEmit = None
    /\ lastFuture = None
    /\ tasks = {}
    /\ serde = None
    /\ pc = [t \in Threads |-> IF t = "worker" THEN "idle" ELSE "nogil"]
    /\ gil = "free"
    /\ mutex = "free"
    /\ futures = 0
    /\ pending = 0
    /\ crossbeam = 0

Init == Start /\ request = << >>

\* frames whose window, webview and loop exist
Built == 1 .. nframes

(***************************************************************************)
(* create_webframe                                                         *)
(***************************************************************************)
\* lines 111-132: create both channels, store the sender of the
\* host->background channel in MESSAGE_CHANNEL (replacing whatever was
\* there), spawn the consumer task and the reply reader task
wire_channels(c) ==
    /\ MESSAGE_CHANNEL' = Some(c)
    /\ py_to_rust' = [py_to_rust EXCEPT ![c] = << >>]
    /\ rust_to_py' = [rust_to_py EXCEPT ![c] = << >>]
    /\ consumer' = [consumer EXCEPT ![c] = "running"]
    /\ reader' = [reader EXCEPT ![c] = "running"]

\* a call whose window and webview are built: it wires the channels, spawns
\* the tasks and enters event_loop.run, which never returns
create_webframe ==
    /\ ~exited
    /\ nframes < MaxFrames
    /\ nframes' = nframes + 1
    /\ wire_channels(nframes + 1)
    /\ UNCHANGED << auxVars, nfailed, nwindow, exited, loopVars, consumed, printed,
                    emitVars >>

\* variant of create_webframe_failure in which the failing step comes after
\* the sender has been stored at line 115
create_webframe_failure_late ==
    /\ ~exited
    /\ nfailed < MaxFailures
    /\ nframes < MaxFrames
    /\ nfailed' = nfailed + 1
    /\ MESSAGE_CHANNEL' = Some(nframes + 1)
    /\ UNCHANGED << auxVars, nframes, nwindow, exited, loopVars, py_to_rust, rust_to_py,
                    consumer, reader, consumed, printed, emitVars >>

\* a call where WindowBuilder::build, WebViewBuilder::build or Runtime::new
\* fails: the `?` returns the error before line 111
create_webframe_failure ==
    /\ ~exited
    /\ nfailed < MaxFailures
    /\ nfailed' = nfailed + 1
    /\ UNCHANGED << auxVars, nframes, nwindow, exited, loopVars, fabricVars >>

(***************************************************************************)
(* handle_ipc_req: the IPC handler                                         *)
(***************************************************************************)
\* res.extract::<Option<String>>(py): Python None is Ok(None), a str is
\* Ok(Some(s)), any other object is Err
extract_Option_String(res) ==
    IF res.kind = "None" THEN [ok |-> TRUE, val |-> None]
    ELSE IF res.kind = "str" THEN [ok |-> TRUE, val |-> Some(res.s)]
    ELSE [ok |-> FALSE, val |-> None]

\* variants of handle_ipc_req with a slip in one arm of the match
handle_ipc_req_twice(res) ==
    IF res.kind = "str" THEN << Eval(res.s), Eval(res.s) >> ELSE << >>
handle_ipc_req_unwrap(res) ==
    IF res.kind = "raise" THEN << >> ELSE << Eval(res.s) >>
handle_ipc_req_report(res) ==
    IF res.kind = "str" THEN << Eval(res.s) >>
    ELSE IF res.kind = "raise" THEN << Eval("document.title='x'") >> ELSE << >>

\* lines 70-83: the instructions the handler posts for one callback outcome.
\* Err(error) is printed and dropped; Ok(res) posts Eval(script) when res
\* extracts to Some(script)
handle_ipc_req(res) ==
    IF res.kind = "raise" THEN << >>
    ELSE LET x == extract_Option_String(res)
         IN  IF x.ok /\ x.val # None THEN << Eval(x.val[1]) >> ELSE << >>

\* variant of send_event that puts the new event in front of the queue
send_event_front(q, events) == events \o q

\* EventLoopProxy::send_event on a live loop: the event joins the loop's queue
send_event(q, events) == q \o events

\* one IPC request of frame f, whose callback produces res
dispatch(f, res) ==
    /\ ~exited
    /\ f \in Built
    /\ ndispatch < MaxDispatch
    /\ ndispatch' = ndispatch + 1
    /\ lastDispatch' = Some([frame |-> f, res |-> res])
    /\ queue' = [queue EXCEPT ![f] = send_event(@, handle_ipc_req(res))]
    /\ sent' = [sent EXCEPT
                  ![f] = @ \o [i \in DOMAIN handle_ipc_req(res) |->
                                 handle_ipc_req(res)[i].script]]
    /\ UNCHANGED << auxVars, nframes, nfailed, nwindow, exited, flow, evaluated,
                    lastResult, fabricVars >>

(***************************************************************************)
(* The tao event loop and the closure passed to event_loop.run             *)
(***************************************************************************)
\* the platform delivers a window event to frame f
window_event(f, e) ==
    /\ ~exited
    /\ f \in Built
    /\ nwindow < MaxWindowEvents
    /\ nwindow' = nwindow + 1
    /\ queue' = [queue EXCEPT ![f] = Append(@, e)]
    /\ UNCHANGED << auxVars, nframes, nfailed, exited, flow, sent, evaluated,
                    lastResult, ndispatch, lastDispatch, fabricVars >>

\* lines 136-162, control flow: `*flow = Wait`, then CloseRequested sets Exit
closure_flow(e) ==
    IF e.type = "CloseRequested" THEN "Exit" ELSE "Wait"

\* lines 147-160, surface: a UserEvent(Eval(script)) calls evaluate_script,
\* whatever the control flow is
closure_evaluate(e) ==
    IF e.type = "UserEvent" THEN << e.script >> ELSE << >>

\* ControlFlow::Exit is sticky: once set, an assignment by the closure is
\* reset to Exit by the loop
sticky(old, new) == IF old = "Exit" THEN "Exit" ELSE new

\* variant of closure_result in which a failed evaluation stops the loop
closure_result_exit(fl, r) == IF r = "Err" THEN "Exit" ELSE fl

\* lines 152-159: the closure matches on what evaluate_script returned; the
\* Ok arm prints to stdout and the Err arm to stderr, and neither assigns
\* the control flow, which stays as the closure set it at line 136.
closure_result(fl, r) == fl

\* the loop hands the next queued event to the closure; r is what
\* evaluate_script returns (Ok or Err, both only printed).  After the closure
\* has set Exit the loop stops; whether events already queued still reach
\* the closure before it stops depends on the platform's loop, so both this
\* step and loop_exit are possible then.
loop_step(f, r) ==
    /\ ~exited
    /\ f \in Built
    /\ queue[f] # << >>
    /\ LET e == Head(queue[f])
       IN  /\ flow' = [flow EXCEPT
                          ![f] = sticky(@, IF closure_evaluate(e) = << >>
                                           THEN closure_flow(e)
                                           ELSE closure_result(closure_flow(e), r))]
           /\ evaluated' = [evaluated EXCEPT ![f] = @ \o closure_evaluate(e)]
           /\ lastResult' = IF closure_evaluate(e) = << >> THEN lastResult
                            ELSE Some(r)
    /\ queue' = [queue EXCEPT ![f] = Tail(@)]
    /\ UNCHANGED << auxVars, nframes, nfailed, nwindow, exited, sent, ndispatch,
                    lastDispatch, fabricVars >>

\* the loop of frame f stops after Exit: event_loop.run ends the process
loop_exit(f) ==
    /\ ~exited
    /\ f \in Built
    /\ flow[f] = "Exit"
    /\ exited' = TRUE
    /\ UNCHANGED << auxVars, nframes, nfailed, nwindow, loopVars, fabricVars >>

(***************************************************************************)
(* emit_str / emit_async                                                   *)
(***************************************************************************)
\* UnboundedSender::send fails only when the receiver half has been dropped;
\* py_to_rust_rx is owned by the consumer task
receiver_open(c) == consumer[c] = "running"

\* variants of emit_str_outcome: the sender is looked up before the payload
\* is parsed; a missing sender is not reported
emit_str_outcome_lookup_first(json, channel) ==
    IF channel = None THEN [ret |-> "PyRuntimeError", chan |-> 0]
    ELSE IF ~from_str(json).ok THEN [ret |-> "PyValueError", chan |-> 0]
    ELSE IF ~receiver_open(channel[1]) THEN [ret |-> "PyRuntimeError", chan |-> 0]
    ELSE [ret |-> "Ok", chan |-> channel[1]]
emit_str_outcome_silent(json, channel) ==
    IF ~from_str(json).ok THEN [ret |-> "PyValueError", chan |-> 0]
    ELSE IF channel = None THEN [ret |-> "Ok", chan |-> 0]
    ELSE IF ~receiver_open(channel[1]) THEN [ret |-> "PyRuntimeError", chan |-> 0]
    ELSE [ret |-> "Ok", chan |-> channel[1]]

\* lines 192-205: the result of emit_str and the channel it sends on.
\* A parse failure is PyValueError ("Invalid JSON"); no stored sender
\* ("Channel not initialized") and a failed send are PyRuntimeError.
emit_str_outcome(json, channel) ==
    IF ~from_str(json).ok THEN [ret |-> "PyValueError", chan |-> 0]
    ELSE IF channel = None THEN [ret |-> "PyRuntimeError", chan |-> 0]
    ELSE IF ~receiver_open(channel[1]) THEN [ret |-> "PyRuntimeError", chan |-> 0]
    ELSE [ret |-> "Ok", chan |-> channel[1]]

\* variant of emit_async_outcome that reports a payload that does not parse
\* with the exception type of the channel errors
emit_async_outcome_untyped(json, channel) ==
    IF ~from_str(json).ok THEN [ret |-> "PyRuntimeError", chan |-> 0]
    ELSE IF channel = None THEN [ret |-> "PyRuntimeError", chan |-> 0]
    ELSE [ret |-> "Pending", chan |-> channel[1]]

\* lines 209-225: the result of the emit_async call itself and the channel
\* whose sender the spawned future holds; the send happens in the future
emit_async_outcome(json, channel) ==
    IF ~from_str(json).ok THEN [ret |-> "PyValueError", chan |-> 0]
    ELSE IF channel = None THEN [ret |-> "PyRuntimeError", chan |-> 0]
    ELSE [ret |-> "Pending", chan |-> channel[1]]

\* UnboundedSender::send(message) on channel c.  Next to the message the
\* queue entry records which call sent it: its number, thread and payload,
\* and the channel of the sender it went through.
channel_send(c, id, p, json, msg) ==
    /\ py_to_rust' = [py_to_rust EXCEPT
                        ![c] = Append(@, [id |-> id, p |-> p, json |-> json,
                                          msg |-> msg, chan |-> c])]
    /\ nsent' = nsent + 1

Call(op, json, o) ==
    [id |-> nemits + 1, op |-> op, json |-> json, ret |-> o.ret, chan |-> o.chan]

\* producer thread p calls emit_str(json)
emit_str(p, json) ==
    /\ ~exited
    /\ nemits < MaxEmits
    /\ nemits' = nemits + 1
    /\ LET o == emit_str_outcome(json, MESSAGE_CHANNEL)
           call == Call("emit_str", json, o)
       IN  /\ lastEmit' = Some(call)
           /\ IF o.ret = "Ok"
              THEN channel_send(o.chan, call.id, p, json, from_str(json).msg)
              ELSE UNCHANGED << py_to_rust, nsent >>
    /\ UNCHANGED << auxVars, nframes, nfailed, nwindow, exited, loopVars,
                    MESSAGE_CHANNEL, rust_to_py, consumer, reader, consumed,
                    printed, lastFuture, tasks >>

\* producer thread p calls emit_async(json): on success the future is handed
\* to the tokio runtime and the awaitable is returned
emit_async(p, json) ==
    /\ ~exited
    /\ nemits < MaxEmits
    /\ nemits' = nemits + 1
    /\ LET o == emit_async_outcome(json, MESSAGE_CHANNEL)
           call == Call("emit_async", json, o)
       IN  /\ lastEmit' = Some(call)
           /\ IF o.ret = "Pending"
              THEN tasks' = tasks \cup {[id |-> call.id, p |-> p, chan |-> o.chan,
                                         json |-> json,
                                         msg |-> from_str(json).msg]}
              ELSE UNCHANGED tasks
    /\ UNCHANGED << auxVars, nframes, nfailed, nwindow, exited, loopVars,
                    MESSAGE_CHANNEL, py_to_rust, rust_to_py, consumer, reader,
                    consumed, printed, nsent, lastFuture >>

\* lines 216-221: a runtime worker runs the future of an emit_async call
emit_async_future(t) ==
    /\ ~exited
    /\ t \in tasks
    /\ tasks' = tasks \ {t}
    /\ IF receiver_open(t.chan)
       THEN /\ channel_send(t.chan, t.id, t.p, t.json, t.msg)
            /\ lastFuture' = Some([id |-> t.id, ret |-> "Ok"])
       ELSE /\ lastFuture' = Some([id |-> t.id, ret |-> "PyRuntimeError"])
            /\ UNCHANGED << py_to_rust, nsent >>
    /\ UNCHANGED << auxVars, nframes, nfailed, nwindow, exited, loopVars,
                    MESSAGE_CHANNEL, rust_to_py, consumer, reader, consumed,
                    printed, nemits, lastEmit >>

(***************************************************************************)
(* The tasks spawned by create_webframe                                    *)
(***************************************************************************)
\* variant of receiver_of in which the receiver is kept in one shared place
\* and every consumer task reads from it
receiver_of_shared(k) == 1

\* lines 111 and 119-120: the receiver the consumer task of the k-th call
\* reads from.  py_to_rust_rx is created by that call and moved into the
\* task (`async move`); MESSAGE_CHANNEL holds the sender only.
receiver_of(k) == k

\* lines 119-125: one iteration of the consumer task c.  The reply
\* send is unwrapped: if rust_to_py_rx is gone the task panics and its
\* receiver is dropped with whatever is still queued.
consumer_recv(c) ==
    /\ ~exited
    /\ consumer[c] = "running"
    /\ py_to_rust[receiver_of(c)] # << >>
    /\ consumed' = [consumed EXCEPT
                      ![c] = Append(@, Head(py_to_rust[receiver_of(c)]))]
    /\ IF reader[c] = "running"
       THEN /\ rust_to_py' = [rust_to_py EXCEPT ![c] = Append(@, "pong from rust")]
            /\ py_to_rust' = [py_to_rust EXCEPT ![receiver_of(c)] = Tail(@)]
            /\ UNCHANGED consumer
       ELSE /\ consumer' = [consumer EXCEPT ![c] = "panicked"]
            /\ py_to_rust' = [py_to_rust EXCEPT ![receiver_of(c)] = << >>]
            /\ UNCHANGED rust_to_py
    /\ UNCHANGED << auxVars, nframes, nfailed, nwindow, exited, loopVars,
                    MESSAGE_CHANNEL, reader, printed, emitVars >>

\* variant of reader_recv that takes one reply and returns (`if let` in place
\* of `while let`), dropping the reply receiver
reader_recv_once(c) ==
    /\ ~exited
    /\ reader[c] = "running"
    /\ rust_to_py[c] # << >>
    /\ rust_to_py' = [rust_to_py EXCEPT ![c] = Tail(@)]
    /\ printed' = [printed EXCEPT ![c] = @ + 1]
    /\ reader' = [reader EXCEPT ![c] = "done"]
    /\ UNCHANGED << auxVars, nframes, nfailed, nwindow, exited, loopVars,
                    MESSAGE_CHANNEL, py_to_rust, consumer, consumed,
                    emitVars >>

\* lines 128-132: one iteration of the reply reader of channel c
reader_recv(c) ==
    /\ ~exited
    /\ reader[c] = "running"
    /\ rust_to_py[c] # << >>
    /\ rust_to_py' = [rust_to_py EXCEPT ![c] = Tail(@)]
    /\ printed' = [printed EXCEPT ![c] = @ + 1]
    /\ UNCHANGED << auxVars, nframes, nfailed, nwindow, exited, loopVars,
                    MESSAGE_CHANNEL, py_to_rust, consumer, reader, consumed,
                    emitVars >>

(***************************************************************************)
(* SerdeRequest::from (src/src/ipc_req.rs)                                  *)
(***************************************************************************)
\* header names as the producer of the request spelled them
HeaderNames == {"X-A", "x-a", "x-b"}

\* HeaderValue: any bytes; to_str() is Ok only for visible ASCII
HeaderValues == {[text |-> TRUE, s |-> "1"], [text |-> TRUE, s |-> "2"],
                 [text |-> FALSE, s |-> "bytes"]}

\* the header lines of a request, in the order they were appended
Requests ==
    UNION {[1 .. n -> [name : HeaderNames, value : HeaderValues]] :
             n \in 0 .. MaxHeaders}

\* HeaderName::as_str: a HeaderName holds the lower-case form of the name
as_str(name) == IF name = "X-A" THEN "x-a" ELSE name

\* HeaderValue::to_str().unwrap_or("")
to_str_unwrap_or(value) == IF value.text THEN value.s ELSE ""

\* the names of h in the order of their first line
RECURSIVE entries(_)
entries(h) ==
    IF h = << >> THEN << >>
    ELSE LET r == entries(SubSeq(h, 1, Len(h) - 1))
             n == as_str(h[Len(h)].name)
         IN  IF \E i \in DOMAIN r : r[i] = n THEN r ELSE Append(r, n)

\* the values of name n in h, in the order they were appended
RECURSIVE values_of(_, _)
values_of(h, n) ==
    IF h = << >> THEN << >>
    ELSE LET rest == values_of(Tail(h), n)
         IN  IF as_str(Head(h).name) = n THEN << Head(h).value >> \o rest
             ELSE rest

\* HeaderMap::iter(): one (name, value) pair per value, the values of one
\* name together and in the order they were appended
RECURSIVE iter_from(_, _)
iter_from(h, names) ==
    IF names = << >> THEN << >>
    ELSE LET n == Head(names)
             vs == values_of(h, n)
         IN  [i \in DOMAIN vs |-> [name |-> n, value |-> vs[i]]]
                \o iter_from(h, Tail(names))
iter(h) == iter_from(h, entries(h))

\* variant of insert that keeps the value a key already has
insert_keep(m, k, v) ==
    [x \in DOMAIN m \cup {k} |-> IF x \in DOMAIN m THEN m[x] ELSE v]

\* HashMap::insert as collect() uses it: a later pair replaces the value of
\* an equal key
insert(m, k, v) ==
    [x \in DOMAIN m \cup {k} |-> IF x = k THEN v ELSE m[x]]

\* lines 29-33: .map(|(k, v)| (k.as_str().to_string(),
\* v.to_str().unwrap_or("").to_string())).collect::<HashMap<_, _>>()
RECURSIVE collect(_)
collect(pairs) ==
    IF pairs = << >> THEN << >>
    ELSE LET p == pairs[Len(pairs)]
         IN  insert(collect(SubSeq(pairs, 1, Len(pairs) - 1)),
                    p.name, to_str_unwrap_or(p.value))

\* lines 25-42: the headers field of SerdeRequest::from(req)
SerdeRequest_headers(h) == collect(iter(h))

\* the conversion is applied to the request
SerdeRequest_from ==
    /\ serde = None
    /\ serde' = Some(SerdeRequest_headers(request))
    /\ UNCHANGED << nframes, nfailed, exited, loopVars, fabricVars, request,
                    lockVars >>

(***************************************************************************)
(* The same calls, cut where a thread takes or releases a lock, blocks or  *)
(* prints.  Two locks exist: the interpreter lock (GIL), which a thread    *)
(* holds whenever it runs Python code or a #[pyfunction] / #[pymethods]    *)
(* body (none of them calls allow_threads), and the MESSAGE_CHANNEL mutex. *)
(* What the calls move through the channels is modelled above and is not   *)
(* repeated here.                                                          *)
(***************************************************************************)
programVars == << nframes, nfailed, exited, loopVars, fabricVars >>

\* threads that run Python code
PyThreads == {"render"} \cup Hosts

goto(t, l) == pc' = [pc EXCEPT ![t] = l]

\* the interpreter gives the GIL to a thread that waits to run Python code
gil_take(t) ==
    /\ pc[t] = "nogil"
    /\ gil = "free"
    /\ gil' = t
    /\ goto(t, "python")
    /\ UNCHANGED << programVars, requestVars, mutex, futures, pending,
                    crossbeam >>

\* between two bytecodes the interpreter takes the GIL from the thread that
\* runs Python code
gil_yield(t) ==
    /\ pc[t] = "python"
    /\ gil' = "free"
    /\ goto(t, "nogil")
    /\ UNCHANGED << programVars, requestVars, mutex, futures, pending,
                    crossbeam >>

\* lib.rs 88-115: Python code on the render thread calls create_webframe;
\* the window, the webview, the runtime and the channels are built and the
\* thread reaches MESSAGE_CHANNEL.lock() with the GIL held
create_webframe_call ==
    /\ pc["render"] = "python"
    /\ nframes < MaxFrames
    /\ goto("render", "cw_lock")
    /\ UNCHANGED << programVars, requestVars, gil, mutex, futures, pending,
                    crossbeam >>

\* lib.rs 115-135: the sender is stored (the guard is a temporary of that
\* statement), the tasks are spawned and the thread enters event_loop.run,
\* which does not return: the GIL stays with the render thread
create_webframe_store ==
    /\ pc["render"] = "cw_lock"
    /\ mutex = "free"
    /\ nframes' = nframes + 1
    /\ wire_channels(nframes + 1)
    /\ goto("render", "loop")
    /\ UNCHANGED << nfailed, exited, loopVars, consumed, printed, emitVars,
                    requestVars, gil, mutex, futures, pending, crossbeam >>

\* the platform queues a window event for the loop
os_window_event ==
    /\ pending < MaxPending
    /\ pending' = pending + 1
    /\ UNCHANGED << programVars, requestVars, pc, gil, mutex, futures,
                    crossbeam >>

\* lib.rs 135-163: the loop, waiting in event_loop.run, calls the closure
\* with a queued window event
event_loop_event ==
    /\ pc["render"] = "loop"
    /\ pending > 0
    /\ pending' = pending - 1
    /\ UNCHANGED << programVars, requestVars, pc, gil, mutex, futures,
                    crossbeam >>

\* ipc_req.rs 63-69 and lib.rs 96-102: the webview, built and owned by the
\* thread that runs the loop, calls its IPC handler (an Fn + 'static
\* closure without Send) on that thread; Python::with_gil finds the GIL
\* held by this thread and handler.call1 starts the callback
ipc_handler_call ==
    /\ pc["render"] = "loop"
    /\ gil = "render"
    /\ goto("render", "callback")
    /\ UNCHANGED << programVars, requestVars, gil, mutex, futures, pending,
                    crossbeam >>

\* the callback is Python code: the interpreter can take the GIL from it
callback_yield ==
    /\ pc["render"] = "callback"
    /\ gil' = "free"
    /\ goto("render", "callback_nogil")
    /\ UNCHANGED << programVars, requestVars, mutex, futures, pending,
                    crossbeam >>

\* and gives it back when it is free
callback_resume ==
    /\ pc["render"] = "callback_nogil"
    /\ gil = "free"
    /\ gil' = "render"
    /\ goto("render", "callback")
    /\ UNCHANGED << programVars, requestVars, mutex, futures, pending,
                    crossbeam >>

\* ipc_req.rs 70-84: the callback returns, the handler posts its result or
\* prints its error and returns to the loop
ipc_handler_return ==
    /\ pc["render"] = "callback"
    /\ goto("render", "loop")
    /\ UNCHANGED << programVars, requestVars, gil, mutex, futures, pending,
                    crossbeam >>

\* lib.rs 192-197: Python code on thread t calls emit_str with a payload
\* that parses, and reaches MESSAGE_CHANNEL.lock()
emit_str_call(t) ==
    /\ pc[t] = "python"
    /\ goto(t, "es_lock")
    /\ UNCHANGED << programVars, requestVars, gil, mutex, futures, pending,
                    crossbeam >>

\* lib.rs 197 and 202-204: the lock is taken.  The guard is a temporary of
\* the `if let` scrutinee and lives to the end of the `if let`: with a
\* sender stored the thread goes on into the block holding it, with None it
\* returns the error
emit_str_lock(t) ==
    /\ pc[t] = "es_lock"
    /\ mutex = "free"
    /\ IF MESSAGE_CHANNEL = None
       THEN goto(t, "python") /\ UNCHANGED mutex
       ELSE goto(t, "es_print") /\ mutex' = t
    /\ UNCHANGED << programVars, requestVars, gil, futures, pending,
                    crossbeam >>

\* lib.rs 198: println! writes the message to stdout
emit_str_println(t) ==
    /\ pc[t] = "es_print"
    /\ goto(t, "es_send")
    /\ UNCHANGED << programVars, requestVars, gil, mutex, futures, pending,
                    crossbeam >>

\* lib.rs 199-202: sender.send, then the block ends and the guard is dropped
emit_str_send(t) ==
    /\ pc[t] = "es_send"
    /\ mutex' = "free"
    /\ goto(t, "python")
    /\ UNCHANGED << programVars, requestVars, gil, futures, pending,
                    crossbeam >>

\* lib.rs 208-214: Python code on thread t calls emit_async with a payload
\* that parses, and reaches MESSAGE_CHANNEL.lock()
emit_async_call(t) ==
    /\ pc[t] = "python"
    /\ futures < MaxPending
    /\ goto(t, "ea_lock")
    /\ UNCHANGED << programVars, requestVars, gil, mutex, futures, pending,
                    crossbeam >>

\* lib.rs 214 and 222-224: as in emit_str
emit_async_lock(t) ==
    /\ pc[t] = "ea_lock"
    /\ mutex = "free"
    /\ IF MESSAGE_CHANNEL = None
       THEN goto(t, "python") /\ UNCHANGED mutex
       ELSE goto(t, "ea_spawn") /\ mutex' = t
    /\ UNCHANGED << programVars, requestVars, gil, futures, pending,
                    crossbeam >>

\* lib.rs 215-221: the sender is cloned and future_into_py hands the future
\* to the runtime; the awaitable is returned and the guard is dropped
emit_async_spawn(t) ==
    /\ pc[t] = "ea_spawn"
    /\ futures' = futures + 1
    /\ mutex' = "free"
    /\ goto(t, "python")
    /\ UNCHANGED << programVars, requestVars, gil, pending, crossbeam >>

\* lib.rs 216: future_into_py calls back into the interpreter to make the
\* awaitable (the running loop's create_future(), add_done_callback): that
\* is Python code, between whose bytecodes the interpreter can take the GIL
\* from the thread.  The guard of line 214 is still alive
emit_async_yield(t) ==
    /\ pc[t] = "ea_spawn"
    /\ gil' = "free"
    /\ goto(t, "ea_spawn_nogil")
    /\ UNCHANGED << programVars, requestVars, mutex, futures, pending,
                    crossbeam >>

\* the thread goes on in future_into_py when it has the GIL again
emit_async_resume(t) ==
    /\ pc[t] = "ea_spawn_nogil"
    /\ gil = "free"
    /\ gil' = t
    /\ goto(t, "ea_spawn")
    /\ UNCHANGED << programVars, requestVars, mutex, futures, pending,
                    crossbeam >>

\* lib.rs 216-217: a worker of the runtime starts the future, which owns
\* the clone of the sender and takes no lock for its send
future_start ==
    /\ pc["worker"] = "idle"
    /\ futures > 0
    /\ futures' = futures - 1
    /\ goto("worker", "f_print")
    /\ UNCHANGED << programVars, requestVars, gil, mutex, pending,
                    crossbeam >>

\* lib.rs 217: println! writes the message to stdout
future_println ==
    /\ pc["worker"] = "f_print"
    /\ goto("worker", "f_send")
    /\ UNCHANGED << programVars, requestVars, gil, mutex, futures, pending,
                    crossbeam >>

\* lib.rs 218-220: sender.send, then Python::with_gil is reached
future_send ==
    /\ pc["worker"] = "f_send"
    /\ goto("worker", "f_gil")
    /\ UNCHANGED << programVars, requestVars, gil, mutex, futures, pending,
                    crossbeam >>

\* lib.rs 220: Python::with_gil waits until the GIL is free
future_with_gil ==
    /\ pc["worker"] = "f_gil"
    /\ gil = "free"
    /\ gil' = "worker"
    /\ goto("worker", "f_none")
    /\ UNCHANGED << programVars, requestVars, mutex, futures, pending,
                    crossbeam >>

\* lib.rs 220-221: py.None() is the future's value; the GIL is released and
\* the future ends
future_done ==
    /\ pc["worker"] = "f_none"
    /\ gil' = "free"
    /\ goto("worker", "idle")
    /\ UNCHANGED << programVars, requestVars, mutex, futures, pending,
                    crossbeam >>

(***************************************************************************)
(* ReceiverHandle (src/src/py_sender.rs)                                   *)
(***************************************************************************)
\* py_sender.rs 47-48: Python code on thread t calls recv_blocking; the
\* method body runs with the GIL held and calls self.rx.recv()
recv_blocking_call(t) ==
    /\ pc[t] = "python"
    /\ goto(t, "rb_wait")
    /\ UNCHANGED << programVars, requestVars, gil, mutex, futures, pending,
                    crossbeam >>

\* py_sender.rs 48: rx.recv() returns when the channel holds a message
recv_blocking_return(t) ==
    /\ pc[t] = "rb_wait"
    /\ crossbeam > 0
    /\ crossbeam' = crossbeam - 1
    /\ goto(t, "python")
    /\ UNCHANGED << programVars, requestVars, gil, mutex, futures, pending >>

\* py_sender.rs 59: the other end of rx_from_rust_to_py is held by Rust
\* code, which sends without the GIL
rust_send ==
    /\ crossbeam < MaxPending
    /\ crossbeam' = crossbeam + 1
    /\ UNCHANGED << programVars, requestVars, pc, gil, mutex, futures,
                    pending >>

(***************************************************************************)
(* Specification                                                           *)
(***************************************************************************)
\* the render path: surface creation, IPC dispatch and the event loop
NextLoop ==
    \/ create_webframe
    \/ \E f \in Frames, res \in CallbackResults : dispatch(f, res)
    \/ \E f \in Frames, e \in WindowEvents : window_event(f, e)
    \/ \E f \in Frames, r \in {"Ok", "Err"} : loop_step(f, r)
    \/ \E f \in Frames : loop_exit(f)

\* the channel path: channel wiring, the emitters and the spawned tasks
NextFabric ==
    \/ create_webframe
    \/ \E p \in Producers, json \in Payloads : emit_str(p, json)
    \/ \E p \in Producers, json \in Payloads : emit_async(p, json)
    \/ \E t \in tasks : emit_async_future(t)
    \/ \E c \in Frames : consumer_recv(c)
    \/ \E c \in Frames : reader_recv(c)

Next == NextLoop \/ NextFabric \/ create_webframe_failure

Spec == Init /\ [][Next]_vars

\* The two paths share only `exited`, which stops every action, and the
\* frame count: each path is explored on its own.  A failed create_webframe
\* touches neither path.
SpecLoop == Init /\ [][NextLoop]_vars
SpecFabric == Init /\ [][NextFabric]_vars

\* create_webframe calls that succeed and that fail, between emit_str calls
\* and the consumer task's receives
NextCreate ==
    \/ create_webframe
    \/ create_webframe_failure
    \/ \E p \in Producers, json \in Payloads : emit_str(p, json)
    \/ \E c \in Frames : consumer_recv(c)

SpecCreate == Init /\ [][NextCreate]_vars

\* the threads of the process and the two locks
NextLocks ==
    \/ \E t \in PyThreads : gil_take(t)
    \/ \E t \in PyThreads : gil_yield(t)
    \/ create_webframe_call
    \/ create_webframe_store
    \/ os_window_event
    \/ event_loop_event
    \/ ipc_handler_call
    \/ callback_yield
    \/ callback_resume
    \/ ipc_handler_return
    \/ \E t \in Hosts : emit_str_call(t)
    \/ \E t \in Hosts : emit_str_lock(t)
    \/ \E t \in Hosts : emit_str_println(t)
    \/ \E t \in Hosts : emit_str_send(t)
    \/ \E t \in Hosts : emit_async_call(t)
    \/ \E t \in Hosts : emit_async_lock(t)
    \/ \E t \in Hosts : emit_async_yield(t)
    \/ \E t \in Hosts : emit_async_resume(t)
    \/ \E t \in Hosts : emit_async_spawn(t)
    \/ future_start
    \/ future_println
    \/ future_send
    \/ future_with_gil
    \/ future_done
    \/ \E t \in Hosts : recv_blocking_call(t)
    \/ \E t \in Hosts : recv_blocking_return(t)
    \/ rust_send

SpecLocks == Init /\ [][NextLocks]_vars

\* SerdeRequest::from applied to every request of up to MaxHeaders lines
InitRequest == Start /\ request \in Requests
NextRequest == SerdeRequest_from
SpecRequest == InitRequest /\ [][NextRequest]_vars

(***************************************************************************)
(* Properties                                                              *)
(***************************************************************************)
\* a step that is one call of the IPC handler, and that call
IsDispatch == ndispatch' = ndispatch + 1
ThisDispatch == lastDispatch'[1]
\* a step that is one call of emit_str or emit_async, and that call
IsEmit == nemits' = nemits + 1
ThisEmit == lastEmit'[1]

\* the step enqueues exactly the events evs on the loop of frame f and
\* nothing on any other loop
Enqueues(f, evs) ==
    /\ queue'[f] = queue[f] \o evs
    /\ \A g \in Frames \ {f} : queue'[g] = queue[g]

\* C1: a dispatch call whose callback returns a non-empty string s enqueues
\* exactly one Eval(s) on the loop of its frame and nothing else.
C1_NonEmptyStringEnqueuesOneEval ==
    [][IsDispatch /\ ThisDispatch.res.kind = "str" /\ ThisDispatch.res.s # ""
         => Enqueues(ThisDispatch.frame, << Eval(ThisDispatch.res.s) >>)]_vars

C1_Witness ==
    /\ lastDispatch # None
    /\ lastDispatch[1].res = [kind |-> "str", s |-> "document.title='x'"]
    /\ queue[lastDispatch[1].frame] = << Eval("document.title='x'") >>
    /\ sent[lastDispatch[1].frame] = << "document.title='x'" >>

\* C2: a dispatch call whose callback returns None enqueues nothing, and
\* every dispatch call enqueues zero or one instruction.
C2_NoneEnqueuesNothing ==
    [][IsDispatch =>
         /\ ThisDispatch.res.kind = "None" => queue' = queue
         /\ \E f \in Frames :
               \/ Enqueues(f, << >>)
               \/ \E x \in Scripts : Enqueues(f, << Eval(x) >>)]_vars

C2_Witness ==
    /\ lastDispatch # None
    /\ lastDispatch[1].res.kind = "None"
    /\ ndispatch = 1
    /\ queue[lastDispatch[1].frame] = << >>
    /\ sent[lastDispatch[1].frame] = << >>

\* C3: a dispatch call whose callback raises enqueues nothing, leaves every
\* loop in its control flow and the process running, and the dispatch call
\* that follows it still enqueues the Eval of a returned string.
C3_CallbackErrorSwallowed ==
    [][IsDispatch =>
         /\ ThisDispatch.res.kind = "raise" =>
               /\ queue' = queue
               /\ flow' = flow
               /\ exited' = exited
         /\ (/\ lastDispatch # None
             /\ lastDispatch[1].res.kind = "raise"
             /\ ThisDispatch.res.kind = "str")
               => Enqueues(ThisDispatch.frame, << Eval(ThisDispatch.res.s) >>)]_vars

C3_Witness ==
    /\ lastDispatch # None
    /\ lastDispatch[1].res.kind = "raise"
    /\ ndispatch = 1
    /\ queue[lastDispatch[1].frame] = << >>
    /\ flow[lastDispatch[1].frame] # "Exit"
    /\ ~exited
    /\ ENABLED dispatch(lastDispatch[1].frame, [kind |-> "str", s |-> ""])

\* C4: once CloseRequested has moved the loop of a frame to Exit, no
\* UserEvent(Eval) is applied to its surface any more.
C4_NoEvalAfterClose ==
    [][\A f \in Frames : flow[f] = "Exit" => evaluated'[f] = evaluated[f]]_vars

\* the scripts of the evaluate_script calls of frame f, in order
EvaluatedScripts(f) == evaluated[f]

IsPrefix(a, b) == Len(a) <= Len(b) /\ a = SubSeq(b, 1, Len(a))

\* C5: the scripts evaluated by a loop are a prefix of the scripts enqueued
\* through its proxy, in send order.
C5_EvalInSendOrder ==
    \A f \in Frames : IsPrefix(EvaluatedScripts(f), sent[f])

C5_Witness ==
    \E f \in Frames :
        /\ Len(evaluated[f]) = 2
        /\ evaluated[f][1] # evaluated[f][2]
        /\ queue[f] = << >>

\* C6: emit_str and emit_async called with a payload that does not parse
\* fail with PyValueError (InvalidPayload) and change neither the stored
\* sender nor any channel nor the pending futures.
C6_InvalidPayloadLeavesFabric ==
    [][IsEmit /\ ~from_str(ThisEmit.json).ok =>
         /\ ThisEmit.ret = "PyValueError"
         /\ MESSAGE_CHANNEL' = MESSAGE_CHANNEL
         /\ py_to_rust' = py_to_rust
         /\ tasks' = tasks]_vars

C6_Witness ==
    /\ MESSAGE_CHANNEL # None
    /\ py_to_rust[MESSAGE_CHANNEL[1]] # << >>
    /\ lastEmit # None
    /\ lastEmit[1].json = Garbage
    /\ lastEmit[1].ret = "PyValueError"

\* the stored sender has a live receiver
ConsumerSide ==
    /\ MESSAGE_CHANNEL # None
    /\ consumer[MESSAGE_CHANNEL[1]] = "running"

\* C7: emit_str with a valid payload fails with PyRuntimeError
\* (ChannelClosed) and enqueues nothing when no sender is stored or its
\* receiver is gone; otherwise it succeeds and enqueues exactly one message
\* on the stored sender's channel.
C7_ValidPayloadSendsOrChannelClosed ==
    [][IsEmit /\ ThisEmit.op = "emit_str" /\ from_str(ThisEmit.json).ok =>
         IF ConsumerSide
         THEN /\ ThisEmit.ret = "Ok"
              /\ Len(py_to_rust'[MESSAGE_CHANNEL[1]])
                    = Len(py_to_rust[MESSAGE_CHANNEL[1]]) + 1
              /\ \A c \in Frames :
                    IsPrefix(py_to_rust[c], py_to_rust'[c])
                    /\ (c # MESSAGE_CHANNEL[1] => py_to_rust'[c] = py_to_rust[c])
         ELSE /\ ThisEmit.ret = "PyRuntimeError"
              /\ py_to_rust' = py_to_rust]_vars

C7_Witness ==
    /\ MESSAGE_CHANNEL = None
    /\ lastEmit # None
    /\ lastEmit[1].op = "emit_str"
    /\ lastEmit[1].json = Serialize(Message("hi", None))
    /\ lastEmit[1].ret = "PyRuntimeError"

\* how many entries of the sequence q carry the number of emit call i
RECURSIVE CountId(_, _)
CountId(q, i) ==
    IF q = << >> THEN 0
    ELSE (IF Head(q).id = i THEN 1 ELSE 0) + CountId(Tail(q), i)

RECURSIVE SumOver(_, _, _)
SumOver(qs, cs, i) ==
    IF cs = {} THEN 0
    ELSE LET c == CHOOSE x \in cs : TRUE
         IN  CountId(qs[c], i) + SumOver(qs, cs \ {c}, i)

RECURSIVE TotalLen(_, _)
TotalLen(qs, cs) ==
    IF cs = {} THEN 0
    ELSE LET c == CHOOSE x \in cs : TRUE
         IN  Len(qs[c]) + TotalLen(qs, cs \ {c})

\* C8: every message whose send succeeded is either still queued or has
\* been received by a consumer task exactly once (never lost, never
\* duplicated), and what is received for a payload Serialize(m) equals m.
C8_RoundTrip ==
    /\ TotalLen(py_to_rust, Frames) + TotalLen(consumed, Frames) = nsent
    /\ \A i \in 1 .. nemits :
          SumOver(py_to_rust, Frames, i) + SumOver(consumed, Frames, i) <= 1
    /\ (lastEmit # None /\ lastEmit[1].ret = "Ok") =>
          SumOver(py_to_rust, Frames, lastEmit[1].id)
             + SumOver(consumed, Frames, lastEmit[1].id) = 1
    /\ \A c \in Frames : \A k \in DOMAIN consumed[c] :
          \A m \in Messages :
              consumed[c][k].json = Serialize(m) => consumed[c][k].msg = m

C8_Witness ==
    \E c \in Frames :
        /\ Len(consumed[c]) = 2
        /\ py_to_rust[c] = << >>
        /\ consumed[c][1].json = Serialize(Message("hi", Some("t1")))
        /\ consumed[c][1].msg = Message("hi", Some("t1"))
        /\ consumed[c][2].json = Serialize(Message("hi", None))
        /\ lastEmit[1].op = "emit_str"

\* C9: the messages one producer thread emits through emit_str and
\* emit_async are received by a consumer task in the order in which the
\* thread made the calls.
C9_PerProducerFifo ==
    \A c \in Frames : \A a, b \in DOMAIN consumed[c] :
        (a < b /\ consumed[c][a].p = consumed[c][b].p)
           => consumed[c][a].id < consumed[c][b].id

\* C10: however often create_webframe is called, exactly one consumer task
\* is ever spawned.
C10_OneConsumer ==
    Cardinality({c \in Frames : consumer[c] # "none"}) <= 1

\* the consumer tasks that have received a message sent through the sender
\* of channel c
ReceiversOf(c) ==
    {k \in Frames : \E i \in DOMAIN consumed[k] : consumed[k][i].chan = c}

TakesEvent(f) == queue[f] # << >> /\ queue'[f] = Tail(queue[f])

\* the step evaluates a script in frame f, and evaluate_script returns Err
EvalFails(f) == evaluated'[f] # evaluated[f] /\ lastResult' = Some("Err")

\* C14: a failed evaluation neither stops nor breaks the loop: the step that
\* fails leaves a running loop running and the events behind it queued, and
\* after a failure every Eval the loop takes is still evaluated, appended
\* after the scripts evaluated before it.
C14_EvalFailureKeepsLoopRunning ==
    [][\A f \in Frames :
         /\ EvalFails(f) =>
              /\ flow[f] # "Exit" => flow'[f] = "Wait"
              /\ ~exited'
              /\ queue'[f] = Tail(queue[f])
         /\ (lastResult = Some("Err") /\ TakesEvent(f)
               /\ Head(queue[f]).type = "UserEvent") =>
              evaluated'[f] = Append(evaluated[f], Head(queue[f]).script)
      ]_vars

C14_Witness ==
    /\ lastResult = Some("Err")
    /\ \E f \in Frames :
         /\ Len(evaluated[f]) = 1
         /\ \A g \in Frames \ {f} : evaluated[g] = << >>
         /\ flow[f] = "Wait"
         /\ queue[f] # << >>
         /\ Head(queue[f]).type = "UserEvent"
         /\ ENABLED loop_step(f, "Ok")

IsEmitAsync == IsEmit /\ ThisEmit.op = "emit_async"
IsCompletion == tasks' # tasks /\ nemits' = nemits
Completed == CHOOSE t \in tasks : t \notin tasks'

\* what emit_str does to the queues when it sends msg of payload json on
\* channel c: one entry at the back of that channel, nothing else
SentAsEmitStr(c, json) ==
    /\ Len(py_to_rust'[c]) = Len(py_to_rust[c]) + 1
    /\ SubSeq(py_to_rust'[c], 1, Len(py_to_rust[c])) = py_to_rust[c]
    /\ py_to_rust'[c][Len(py_to_rust'[c])].msg = from_str(json).msg
    /\ \A d \in Frames \ {c} : py_to_rust'[d] = py_to_rust[d]

\* C13: emit_async ends as emit_str would from the registry it was called
\* with.  A payload that does not parse, or an empty registry, fails the
\* call with the error emit_str gives and changes nothing; otherwise the
\* call changes no queue, and when its future completes its result and its
\* change to the queues are those of emit_str with the sender that was
\* stored when the call was made.
C13_EmitAsyncAsEmitStr ==
    [][/\ IsEmitAsync =>
            LET json == ThisEmit.json
                e == emit_str_outcome(json, MESSAGE_CHANNEL)
            IN  /\ py_to_rust' = py_to_rust
                /\ IF from_str(json).ok /\ MESSAGE_CHANNEL # None
                   THEN /\ ThisEmit.ret = "Pending"
                        /\ \E t \in tasks' \ tasks :
                              /\ t.chan = MESSAGE_CHANNEL[1]
                              /\ t.json = json
                              /\ t.id = ThisEmit.id
                   ELSE /\ ThisEmit.ret = e.ret
                        /\ tasks' = tasks
       /\ IsCompletion =>
            LET t == Completed
                e == emit_str_outcome(t.json, Some(t.chan))
            IN  /\ lastFuture' = Some([id |-> t.id, ret |-> e.ret])
                /\ IF e.ret = "Ok" THEN SentAsEmitStr(e.chan, t.json)
                   ELSE py_to_rust' = py_to_rust
      ]_vars

C13_Witness ==
    /\ lastFuture # None
    /\ lastFuture[1].ret = "Ok"
    /\ lastEmit[1].op = "emit_async"
    /\ lastEmit[1].ret = "PyValueError"
    /\ \E c \in Frames : \E i \in DOMAIN py_to_rust[c] :
          py_to_rust[c][i].id = lastFuture[1].id

\* the step is a create_webframe call that returns an error
IsFailedCreate == nfailed' = nfailed + 1

\* C19: a create_webframe call that fails returns its error before it has
\* touched the channel fabric: the registry keeps its value, no channel and
\* no task is created, no frame is added, and emit_str of any payload has
\* the outcome it had before the call.
C19_FailedCreateLeavesFabric ==
    [][IsFailedCreate =>
         /\ MESSAGE_CHANNEL' = MESSAGE_CHANNEL
         /\ py_to_rust' = py_to_rust /\ rust_to_py' = rust_to_py
         /\ consumer' = consumer /\ reader' = reader
         /\ nframes' = nframes
         /\ \A json \in Payloads :
               emit_str_outcome(json, MESSAGE_CHANNEL)'
                  = emit_str_outcome(json, MESSAGE_CHANNEL)
      ]_vars

\* a call has failed after an earlier one wired a channel, and emit_str
\* still sends on that channel
C19_Witness ==
    /\ nfailed = 1
    /\ nframes = 1
    /\ MESSAGE_CHANNEL = Some(1)
    /\ nsent = 0
    /\ ENABLED (\E p \in Producers, json \in Payloads :
                   emit_str(p, json) /\ lastEmit'[1].ret = "Ok")

\* the lines of the request whose name normalises to n
LinesOf(n) == {i \in DOMAIN request : as_str(request[i].name) = n}
LastLineOf(n) == CHOOSE i \in LinesOf(n) : \A j \in LinesOf(n) : j <= i

\* C12: the header mapping has exactly one entry per distinct normalised
\* name of the request; its value is the text of the last line of that name,
\* and the empty string when that value is not text.
C12_HeadersLastValuePerName ==
    serde # None =>
       LET m == serde[1]
       IN  /\ DOMAIN m = {as_str(request[i].name) : i \in DOMAIN request}
           /\ \A n \in DOMAIN m :
                 LET v == request[LastLineOf(n)].value
                 IN  m[n] = IF v.text THEN v.s ELSE ""

\* two spellings of one name with different values, and a value that is
\* not text as the last line of a name
C12_Witness ==
    /\ serde # None
    /\ Len(request) = 2
    /\ request[1].name = "X-A" /\ request[2].name = "x-a"
    /\ request[1].value.s = "1" /\ request[2].value.s = "2"
    /\ serde[1] = [n \in {"x-a"} |-> "2"]

\* positions at which a thread prints, or waits for a message or for a lock
IoSteps == {"es_print", "f_print"}
BlockingSteps == {"rb_wait", "f_gil", "nogil", "callback_nogil",
                  "ea_spawn_nogil", "cw_lock", "es_lock", "ea_lock"}

\* C15: a thread that holds the MESSAGE_CHANNEL mutex is never at a step
\* that does I/O or that can block.
C15_NoIoUnderMutex ==
    \A t \in Threads : mutex = t => pc[t] \notin IoSteps \cup BlockingSteps

\* the threads that are inside the scripting callback
CallbackThreads == {t \in Threads : pc[t] \in {"callback", "callback_nogil"}}

\* C16: the callback never runs on the thread of the event loop, and while
\* a callback is in progress the loop can take a queued window event.
C16_CallbackOffLoopThread ==
    \A t \in CallbackThreads :
       /\ t # "render"
       /\ pending > 0 => ENABLED event_loop_event

\* C17: a thread that waits in recv_blocking on an empty channel does not
\* keep the interpreter lock, so the threads that need it can go on.
C17_RecvBlockingFreesInterpreter ==
    \A t \in Threads : (pc[t] = "rb_wait" /\ crossbeam = 0) => gil # t

\* thread t waits for the GIL, or for the mutex, while another thread has it
WaitsGil(t) ==
    /\ pc[t] \in {"nogil", "callback_nogil", "ea_spawn_nogil", "f_gil"}
    /\ gil \notin {"free", t}
WaitsMutex(t) ==
    /\ pc[t] \in {"cw_lock", "es_lock", "ea_lock"}
    /\ mutex \notin {"free", t}

\* C18: no state has a thread that holds the mutex and waits for the GIL
\* while the thread that holds the GIL waits for the mutex.
C18_NoDeadlock ==
    ~ \E a, b \in Threads :
         /\ a # b
         /\ mutex = a /\ WaitsGil(a)
         /\ gil = b /\ WaitsMutex(b)

====
